---- MODULE Spec2Model ----
(***************************************************************************)
(* Model of the two command-line tools of the repository:                  *)
(*   - resize_and_crop.py: batch scale / centre-crop / optional TinyPNG    *)
(*     compression of the images of a directory;                           *)
(*   - create_project.py: project scaffolder (clone, copy, rule file,      *)
(*     docs and audit directories).                                        *)
(***************************************************************************)
EXTENDS Integers, Sequences, FiniteSets, TLC

(***************************************************************************)
(* Python floats are IEEE-754 doubles.  process_image computes the scaled  *)
(* size with float division and multiplication followed by int(); the      *)
(* arithmetic below reproduces those operations bit for bit on positive    *)
(* normal doubles.  A double is a record [m, e] with value m * 2^e, where  *)
(* m is a 53-bit integer (2^52 <= m < 2^53) held as four limbs of 18 bits, *)
(* least significant first.                                                *)
(***************************************************************************)
MantBits == 53

RECURSIVE BitLen(_)
BitLen(n) == IF n = 0 THEN 0 ELSE 1 + BitLen(n \div 2)

LimbBase == 2^18
LimbBits == BitLen(LimbBase) - 1

BigZero == <<0, 0, 0, 0>>
BigOne == <<1, 0, 0, 0>>

BigFromInt(n) == <<n % LimbBase, (n \div LimbBase) % LimbBase, 0, 0>>

BigToInt(x) == x[1] + x[2] * LimbBase

\* x * c + a for a small multiplier c (c <= 2^12) and a small addend a.
BigMulAdd(x, c, a) ==
    LET v1 == x[1] * c + a
        v2 == x[2] * c + v1 \div LimbBase
        v3 == x[3] * c + v2 \div LimbBase
        v4 == x[4] * c + v3 \div LimbBase
    IN  <<v1 % LimbBase, v2 % LimbBase, v3 % LimbBase, v4 % LimbBase>>

BigLess(x, y) ==
    \/ x[4] < y[4]
    \/ x[4] = y[4] /\ x[3] < y[3]
    \/ x[4] = y[4] /\ x[3] = y[3] /\ x[2] < y[2]
    \/ x[4] = y[4] /\ x[3] = y[3] /\ x[2] = y[2] /\ x[1] < y[1]

\* x - y for x >= y.
BigSub(x, y) ==
    LET d1 == x[1] - y[1]
        b1 == IF d1 < 0 THEN 1 ELSE 0
        d2 == x[2] - y[2] - b1
        b2 == IF d2 < 0 THEN 1 ELSE 0
        d3 == x[3] - y[3] - b2
        b3 == IF d3 < 0 THEN 1 ELSE 0
        d4 == x[4] - y[4] - b3
    IN  <<d1 + b1 * LimbBase, d2 + b2 * LimbBase, d3 + b3 * LimbBase, d4>>

BigBitLen(x) ==
    IF x[4] > 0 THEN 3 * LimbBits + BitLen(x[4])
    ELSE IF x[3] > 0 THEN 2 * LimbBits + BitLen(x[3])
    ELSE IF x[2] > 0 THEN LimbBits + BitLen(x[2])
    ELSE BitLen(x[1])

RECURSIVE BigShl(_, _)
BigShl(x, n) ==
    IF n = 0 THEN x
    ELSE IF n >= 12 THEN BigShl(BigMulAdd(x, 2^12, 0), n - 12)
    ELSE BigMulAdd(x, 2^n, 0)

\* floor(x / 2^n)
BigShr(x, n) ==
    LET q == n \div LimbBits
        r == n % LimbBits
        limb(i) == IF i > 4 THEN 0 ELSE x[i]
        out(i) == limb(i + q) \div 2^r + (limb(i + q + 1) % 2^r) * 2^(LimbBits - r)
    IN  <<out(1), out(2), out(3), out(4)>>

\* bit k of x (bit 0 is the least significant)
BigBit(x, k) == (x[k \div LimbBits + 1] \div 2^(k % LimbBits)) % 2

\* The double nearest to (N + f) * 2^e, ties to even, where N >= 2^52 and
\* sticky says that the discarded fraction f (0 <= f < 1) is not zero.
RoundNearestEven(N, sticky, e) ==
    LET s == BigBitLen(N) - MantBits
        keep == BigShr(N, s)
        guard == s >= 1 /\ BigBit(N, s - 1) = 1
        rest == sticky \/ (\E k \in 0..(s - 2) : BigBit(N, k) = 1)
        up == guard /\ (rest \/ BigBit(keep, 0) = 1)
        m == IF up THEN BigMulAdd(keep, 1, 1) ELSE keep
    IN  IF BigBitLen(m) > MantBits
        THEN [m |-> BigShr(m, 1), e |-> e + s + 1]
        ELSE [m |-> m, e |-> e + s]

\* One base-2^18 digit of a long division by the small divisor d (d < 2^13):
\* st.rem is the running remainder, st.q the quotient so far.
DivLimb(st, d) ==
    [q |-> BigMulAdd(BigShl(st.q, 6), 2^12, (st.rem * LimbBase) \div d),
     rem |-> (st.rem * LimbBase) % d]

\* Python's a / b for positive ints (both below 2^12): the correctly rounded
\* quotient.  With a2 / b1 in [1, 2), q is floor(a2 * 2^54 / b1), 55 bits.
IntTrueDiv(a, b) ==
    LET la == BitLen(a)
        lb == BitLen(b)
        a1 == IF la < lb THEN a * 2^(lb - la) ELSE a
        b1 == IF la > lb THEN b * 2^(la - lb) ELSE b
        lt == a1 < b1
        a2 == IF lt THEN 2 * a1 ELSE a1
        k  == (la - lb) - (IF lt THEN 1 ELSE 0)
        r  == DivLimb(DivLimb(DivLimb([q |-> BigOne, rem |-> a2 - b1], b1), b1), b1)
    IN  RoundNearestEven(r.q, r.rem # 0, k - 3 * LimbBits)

\* Python's x * c for a float x and a positive int c (c < 2^12).
FloatMulInt(x, c) == RoundNearestEven(BigMulAdd(x.m, c, 0), FALSE, x.e)

\* One more quotient bit of a long division by the 53-bit divisor D:
\* st.R is the running remainder (R < D), st.Q the quotient so far.
BigDivStep(st, D) ==
    LET R2 == BigMulAdd(st.R, 2, 0)
    IN  IF BigLess(R2, D)
        THEN [R |-> R2, Q |-> BigMulAdd(st.Q, 2, 0)]
        ELSE [R |-> BigSub(R2, D), Q |-> BigMulAdd(st.Q, 2, 1)]

\* n more quotient bits (n >= 1), the first half of them computed before the
\* second half starts.
RECURSIVE BigDivSteps(_, _, _)
BigDivSteps(st, D, n) ==
    IF n = 1 THEN BigDivStep(st, D)
    ELSE CHOOSE r \in {BigDivSteps(half, D, n - n \div 2) :
                           half \in {BigDivSteps(st, D, n \div 2)}} : TRUE

\* Python's c / x for a positive int c and a float x.
IntDivFloat(c, x) ==
    LET lc == BitLen(c)
        N0 == BigShl(BigFromInt(c), MantBits - lc)
        lt == BigLess(N0, x.m)
        N1 == IF lt THEN BigMulAdd(N0, 2, 0) ELSE N0
        k  == (lc - MantBits) - x.e - (IF lt THEN 1 ELSE 0)
        r  == BigDivSteps([R |-> BigSub(N1, x.m), Q |-> BigOne], x.m, MantBits)
    IN  RoundNearestEven(r.Q, r.R # BigZero, k - MantBits)

FloatGreater(x, y) == x.e > y.e \/ (x.e = y.e /\ BigLess(y.m, x.m))

\* Python's int(x) for a positive float: truncation toward zero.
FloatToInt(x) ==
    IF x.e >= 0 THEN BigToInt(BigShl(x.m, x.e)) ELSE BigToInt(BigShr(x.m, 0 - x.e))


(***************************************************************************)
(* resize_and_crop.py: geometry of process_image.                          *)
(***************************************************************************)
TARGET_W == 1242
TARGET_H == 2688

img_ratio(w, h) == IntTrueDiv(w, h)
target_ratio == IntTrueDiv(TARGET_W, TARGET_H)

\* Scale to fit inside the target instead of covering it.
NewSizeContain(w, h) ==
    IF FloatGreater(target_ratio, img_ratio(w, h))
    THEN <<FloatToInt(FloatMulInt(img_ratio(w, h), TARGET_H)), TARGET_H>>
    ELSE <<TARGET_W, FloatToInt(IntDivFloat(TARGET_W, img_ratio(w, h)))>>

\* int() replaced by rounding to nearest, as round() would do.
NewSizeRounded(w, h) ==
    LET x == IF FloatGreater(img_ratio(w, h), target_ratio)
             THEN FloatMulInt(img_ratio(w, h), TARGET_H)
             ELSE IntDivFloat(TARGET_W, img_ratio(w, h))
        n == FloatToInt(x) + BigBit(x.m, 0 - x.e - 1)
    IN  IF FloatGreater(img_ratio(w, h), target_ratio)
        THEN <<n, TARGET_H>> ELSE <<TARGET_W, n>>

\* <<new_width, new_height>> of process_image for a w x h image.
NewSize(w, h) ==
    IF FloatGreater(img_ratio(w, h), target_ratio)
    THEN <<FloatToInt(FloatMulInt(img_ratio(w, h), TARGET_H)), TARGET_H>>
    ELSE <<TARGET_W, FloatToInt(IntDivFloat(TARGET_W, img_ratio(w, h)))>>

\* The odd pixel of the excess put on the left/top instead of the right/bottom.
CropBoxCeil(nw, nh) ==
    LET l == (nw - TARGET_W + 1) \div 2
        t == (nh - TARGET_H + 1) \div 2
    IN  [left |-> l, top |-> t, right |-> l + TARGET_W, bottom |-> t + TARGET_H]

\* The crop box (left, top, right, bottom) of process_image.
CropBox(nw, nh) ==
    LET l == (nw - TARGET_W) \div 2
        t == (nh - TARGET_H) \div 2
    IN  [left |-> l, top |-> t, right |-> l + TARGET_W, bottom |-> t + TARGET_H]

(***************************************************************************)
(* File names and paths.  A name is a sequence of pieces; the pieces form  *)
(* a prefix-free alphabet, so two names are the same string exactly when   *)
(* they are the same sequence.  '.' occurs only as the first character of  *)
(* an extension piece and '/' only as the piece "/".                       *)
(***************************************************************************)
ExtPieces == {".png", ".PNG", ".jpg", ".JPG", ".jpeg", ".txt"}

\* str.lower(), piece by piece
LowerPiece(c) ==
    CASE c = ".PNG" -> ".png"
      [] c = ".JPG" -> ".jpg"
      [] c = "B" -> "b"
      [] OTHER -> c

Lower(f) == [i \in 1..Len(f) |-> LowerPiece(f[i])]

\* f.lower().endswith((".png", ".jpg", ".jpeg"))
IsImageName(f) == Len(f) > 0 /\ Lower(f)[Len(f)] \in {".png", ".jpg", ".jpeg"}

\* os.path.join(d, f)
Join(d, f) == <<d, "/">> \o f

LastIndex(p, S) ==
    IF \E i \in 1..Len(p) : p[i] \in S
    THEN CHOOSE i \in 1..Len(p) : p[i] \in S /\ \A j \in (i + 1)..Len(p) : p[j] \notin S
    ELSE 0

\* os.path.splitext(p)[1]: from the last dot of the base name, unless that
\* dot is the first character of the base name.
SplitExt(p) ==
    LET dot == LastIndex(p, ExtPieces)
        sep == LastIndex(p, {"/"})
    IN  IF dot > sep + 1 THEN SubSeq(p, dot, Len(p)) ELSE <<>>

\* temp_path = output_path + '_temp' + os.path.splitext(output_path)[1]
TempPath(p) == p \o <<"_temp">> \o SplitExt(p)

(***************************************************************************)
(* State.                                                                  *)
(***************************************************************************)
VARIABLES
    argv,         \* sys.argv
    environ,      \* os.environ.get('TINY_PNG_API_KEY')
    listing,      \* os.listdir(input_dir), in the order the system gives
    input_files,  \* what Image.open finds at each input path
    dirs,         \* the directories that exist
    fs,           \* the files of the output directory: path -> content
    pc,           \* position in main / process_image
    exit_code,    \* the argument of sys.exit, NotExited while running
    input_dir, output_dir, use_tinypng, api_key, images, idx,
    calls,        \* the file names process_image was called for, in order
    reports,      \* the per-file lines main printed: [fname, ok]
    final_msg,    \* whether the closing line was printed
    in_path, out_path, img, new_width, new_height, box, temp_path, success,
    tiny_msg,     \* the last line compress_with_tinypng printed
    sc_argv,      \* create_project.py: sys.argv
    remote,       \* the arch/<platform> subtree of the template repository
    before,       \* the project tree and prompt_temp before the run
    tree,         \* the project tree and prompt_temp now
    spc,          \* position in create_project.py
    sc_exit,      \* the argument of sys.exit, NotExited otherwise
    steps         \* what each step of create_project did

envVars == <<argv, environ, listing, input_files>>
mainVars == <<exit_code, input_dir, output_dir, use_tinypng, api_key, images, idx,
              calls, reports, final_msg>>
callVars == <<in_path, out_path>>
imgVars == <<img, new_width, new_height, box>>
tinyVars == <<temp_path, success, tiny_msg>>
toolVars == <<envVars, mainVars, callVars, imgVars, tinyVars, dirs, fs, pc>>
scVars == <<sc_argv, remote, before, tree, spc, sc_exit, steps>>
vars == <<toolVars, scVars>>

None == "None"
NotExited == 0 - 1
Truthy(v) == v # None /\ v # ""

Corrupt == [ok |-> FALSE, width |-> 0, height |-> 0]
ImageFile(w, h) == [ok |-> TRUE, width |-> w, height |-> h]

NoImage == [src |-> <<>>, width |-> 0, height |-> 0, inside |-> TRUE]
NoBox == [left |-> 0, top |-> 0, right |-> 0, bottom |-> 0]

\* What img.save writes for image i, and what a failed write may leave.
Encoded(i) == [src |-> i.src, width |-> i.width, height |-> i.height,
               inside |-> i.inside, enc |-> "pil"]
Partial(i) == [src |-> i.src, width |-> i.width, height |-> i.height,
               inside |-> i.inside, enc |-> "partial"]
\* What the compression service returns for the uploaded bytes c.
Compressed(c) == [src |-> c.src, width |-> c.width, height |-> c.height,
                  inside |-> c.inside, enc |-> "tinypng"]

Exists(p) == p \in DOMAIN fs
Write(f, p, c) == [q \in DOMAIN f \cup {p} |-> IF q = p THEN c ELSE f[q]]
Remove(f, p) == [q \in DOMAIN f \ {p} |-> f[q]]
NoFiles == [q \in {} |-> NoImage]

(***************************************************************************)
(* process_image(input_path, output_path, use_tinypng, api_key)            *)
(***************************************************************************)
\* img = Image.open(input_path)
OpenImage ==
    /\ pc = "open"
    /\ IF in_path \in DOMAIN input_files /\ input_files[in_path].ok
       THEN /\ img' = [src |-> in_path, width |-> input_files[in_path].width,
                       height |-> input_files[in_path].height, inside |-> TRUE]
            /\ pc' = "scale"
       ELSE /\ pc' = "raised"
            /\ UNCHANGED img
    /\ UNCHANGED <<scVars, envVars, mainVars, callVars, new_width, new_height, box,
                   tinyVars, dirs, fs>>

\* new_width, new_height and img.resize, which may raise (e.g. MemoryError)
ScaleImage ==
    /\ pc = "scale"
    /\ new_width' = NewSize(img.width, img.height)[1]
    /\ new_height' = NewSize(img.width, img.height)[2]
    /\ \E resized \in BOOLEAN :
          IF resized
          THEN /\ img' = [img EXCEPT !.width = new_width', !.height = new_height']
               /\ pc' = "crop"
          ELSE /\ pc' = "raised"
               /\ UNCHANGED img
    /\ UNCHANGED <<scVars, envVars, mainVars, callVars, box, tinyVars, dirs, fs>>

\* left, top, right, bottom and img.crop; the result has the size of the box
\* whether or not the box lies inside the scaled image.
CropImage ==
    /\ pc = "crop"
    /\ box' = CropBox(new_width, new_height)
    /\ img' = [img EXCEPT !.width = box'.right - box'.left,
                          !.height = box'.bottom - box'.top,
                          !.inside = /\ 0 <= box'.left /\ box'.right <= new_width
                                     /\ 0 <= box'.top /\ box'.bottom <= new_height]
    /\ pc' = "save"
    /\ UNCHANGED <<scVars, envVars, mainVars, callVars, new_width, new_height, tinyVars, dirs, fs>>

\* A save that raises may leave nothing, or a truncated file, at path p.
FailedSave(p) == fs' = fs \/ fs' = Write(fs, p, Partial(img))

\* if use_tinypng and api_key: ... img.save(temp_path)
SaveTemp ==
    /\ pc = "save"
    /\ use_tinypng /\ Truthy(api_key)
    /\ temp_path' = TempPath(out_path)
    /\ \/ /\ fs' = Write(fs, temp_path', Encoded(img))
          /\ pc' = "compress"
       \/ /\ fs' = fs \/ fs' = Write(fs, temp_path', Partial(img))
          /\ pc' = "raised"
    /\ UNCHANGED <<scVars, envVars, mainVars, callVars, imgVars, success, tiny_msg, dirs>>

\* else: img.save(output_path)
SaveDirect ==
    /\ pc = "save"
    /\ ~(use_tinypng /\ Truthy(api_key))
    /\ \/ /\ fs' = Write(fs, out_path, Encoded(img))
          /\ pc' = "returned"
       \/ /\ FailedSave(out_path)
          /\ pc' = "raised"
    /\ UNCHANGED <<scVars, envVars, mainVars, callVars, imgVars, tinyVars, dirs>>

\* Replies of the service: 0 stands for an exception of the request.
UploadReplies == {201, 401, 429, 400, 500, 0}
DownloadReplies == {200, 404, 0}
WriteResults == {"written", "truncated", "not opened"}

TinyMessage(readable, upload, download, write) ==
    IF ~readable \/ upload = 0 THEN "compress failed"
    ELSE IF upload = 401 THEN "api error: invalid key"
    ELSE IF upload = 429 THEN "api error: rate limit"
    ELSE IF upload = 400 THEN "api error: bad request"
    ELSE IF upload # 201 THEN "api error"
    ELSE IF download = 0 THEN "compress failed"
    ELSE IF download # 200 THEN "download failed"
    ELSE IF write # "written" THEN "compress failed"
    ELSE "compressed"

\* success = compress_with_tinypng(temp_path, output_path, api_key): every
\* exception is caught inside and gives False.
CompressWithTinypng ==
    /\ pc = "compress"
    /\ \E upload \in UploadReplies, download \in DownloadReplies, write \in WriteResults :
          LET readable == Exists(temp_path)
              fetched == readable /\ upload = 201 /\ download = 200
          IN  /\ success' = (fetched /\ write = "written")
              /\ tiny_msg' = TinyMessage(readable, upload, download, write)
              /\ fs' = IF fetched /\ write = "written"
                          THEN Write(fs, out_path, Compressed(fs[temp_path]))
                       ELSE IF fetched /\ write = "truncated"
                          THEN Write(fs, out_path, Partial(fs[temp_path]))
                       ELSE fs
    /\ pc' = "cleanup"
    /\ UNCHANGED <<scVars, envVars, mainVars, callVars, imgVars, temp_path, dirs>>

\* if os.path.exists(temp_path): os.remove(temp_path) -- which may raise
RemoveTemp ==
    /\ pc = "cleanup"
    /\ \E removed \in BOOLEAN :
          IF Exists(temp_path) /\ ~removed
          THEN /\ pc' = "raised"
               /\ UNCHANGED fs
          ELSE /\ fs' = Remove(fs, temp_path)
               /\ pc' = IF success THEN "returned" ELSE "fallback"
    /\ UNCHANGED <<scVars, envVars, mainVars, callVars, imgVars, tinyVars, dirs>>

\* The fallback left out: the function returns without saving.
FallbackSkipped ==
    /\ pc = "fallback"
    /\ pc' = "returned"
    /\ UNCHANGED <<scVars, envVars, mainVars, callVars, imgVars, tinyVars, dirs, fs>>

\* if not success: img.save(output_path)
FallbackSave ==
    /\ pc = "fallback"
    /\ \/ /\ fs' = Write(fs, out_path, Encoded(img))
          /\ pc' = "returned"
       \/ /\ FailedSave(out_path)
          /\ pc' = "raised"
    /\ UNCHANGED <<scVars, envVars, mainVars, callVars, imgVars, tinyVars, dirs>>

\* The steps of process_image around the scale step.
FileSteps ==
    \/ OpenImage \/ CropImage \/ SaveTemp \/ SaveDirect
    \/ CompressWithTinypng \/ RemoveTemp \/ FallbackSave

ProcessImage == ScaleImage \/ FileSteps

(***************************************************************************)
(* main()                                                                  *)
(***************************************************************************)
Exit(code) ==
    /\ pc' = "exit"
    /\ exit_code' = code

\* lines 145-157: usage, argument count, input_dir, output_dir, use_tinypng
CheckArgs ==
    /\ pc = "start"
    /\ IF Len(argv) < 2 \/ argv[2] \in {"-h", "--help"}
       THEN /\ Exit(0)
            /\ UNCHANGED <<input_dir, output_dir, use_tinypng>>
       ELSE IF Len(argv) < 3
       THEN /\ Exit(1)
            /\ UNCHANGED <<input_dir, output_dir, use_tinypng>>
       ELSE /\ input_dir' = argv[2]
            /\ output_dir' = argv[3]
            /\ use_tinypng' = (\E i \in 1..Len(argv) : argv[i] = "--tinypng")
            /\ pc' = "key"
            /\ UNCHANGED exit_code
    /\ UNCHANGED <<scVars, envVars, api_key, images, idx, calls, reports, final_msg,
                   callVars, imgVars, tinyVars, dirs, fs>>

\* The check of the key left out: main goes on without a key.
CheckKeySkipped ==
    /\ pc = "key"
    /\ api_key' = IF use_tinypng THEN environ ELSE api_key
    /\ pc' = "dir"
    /\ UNCHANGED <<scVars, envVars, exit_code, input_dir, output_dir, use_tinypng, images, idx,
                   calls, reports, final_msg, callVars, imgVars, tinyVars, dirs, fs>>

\* lines 160-166: if use_tinypng: api_key = os.environ.get(...); if not api_key: exit(1)
CheckKey ==
    /\ pc = "key"
    /\ IF use_tinypng
       THEN /\ api_key' = environ
            /\ IF ~Truthy(environ)
               THEN Exit(1)
               ELSE pc' = "dir" /\ UNCHANGED exit_code
       ELSE /\ pc' = "dir"
            /\ UNCHANGED <<api_key, exit_code>>
    /\ UNCHANGED <<scVars, envVars, input_dir, output_dir, use_tinypng, images, idx,
                   calls, reports, final_msg, callVars, imgVars, tinyVars, dirs, fs>>

\* os.listdir(d) of an existing directory: only the input directory has entries.
Listdir(d) == IF d = "in" THEN listing ELSE <<>>

\* lines 175-185: input directory, os.makedirs(output_dir, exist_ok=True)
\* (an OSError there is not caught), the list of images
ListImages ==
    /\ pc = "dir"
    /\ IF input_dir \notin dirs
       THEN /\ Exit(1)
            /\ UNCHANGED <<dirs, images, idx>>
       ELSE \E made \in BOOLEAN :
               IF ~made /\ output_dir \notin dirs
               THEN /\ pc' = "uncaught"
                    /\ exit_code' = 1
                    /\ UNCHANGED <<dirs, images, idx>>
               ELSE /\ dirs' = dirs \cup {output_dir}
                    /\ images' = SelectSeq(Listdir(input_dir), IsImageName)
                    /\ IF images' = <<>>
                       THEN Exit(0) /\ UNCHANGED idx
                       ELSE pc' = "loop" /\ idx' = 1 /\ UNCHANGED exit_code
    /\ UNCHANGED <<scVars, envVars, input_dir, output_dir, use_tinypng, api_key,
                   calls, reports, final_msg, callVars, imgVars, tinyVars, fs>>

\* for idx, fname in enumerate(images, 1): ... process_image(in_path, out_path, ...)
LoopCall ==
    /\ pc = "loop"
    /\ idx <= Len(images)
    /\ in_path' = Join(input_dir, images[idx])
    /\ out_path' = Join(output_dir, images[idx])
    /\ calls' = Append(calls, images[idx])
    /\ pc' = "open"
    /\ UNCHANGED <<scVars, envVars, exit_code, input_dir, output_dir, use_tinypng, api_key,
                   images, idx, reports, final_msg, imgVars, tinyVars, dirs, fs>>

\* The locals of a finished call of process_image are gone.
EndCall ==
    /\ in_path' = <<>>
    /\ out_path' = <<>>
    /\ img' = NoImage
    /\ new_width' = 0
    /\ new_height' = 0
    /\ box' = NoBox
    /\ temp_path' = <<>>
    /\ success' = FALSE
    /\ tiny_msg' = ""

\* process_image returned: the "done" line of the file
LoopReturn ==
    /\ pc = "returned"
    /\ reports' = Append(reports, [fname |-> images[idx], ok |-> TRUE])
    /\ idx' = idx + 1
    /\ pc' = "loop"
    /\ EndCall
    /\ UNCHANGED <<scVars, envVars, exit_code, input_dir, output_dir, use_tinypng, api_key,
                   images, calls, final_msg, dirs, fs>>

\* The exception goes on out of main instead of being reported.
LoopExceptAbort ==
    /\ pc = "raised"
    /\ pc' = "uncaught"
    /\ exit_code' = 1
    /\ EndCall
    /\ UNCHANGED <<scVars, envVars, input_dir, output_dir, use_tinypng, api_key,
                   images, idx, calls, reports, final_msg, dirs, fs>>

\* except Exception as e: the "failed" line of the file
LoopExcept ==
    /\ pc = "raised"
    /\ reports' = Append(reports, [fname |-> images[idx], ok |-> FALSE])
    /\ idx' = idx + 1
    /\ pc' = "loop"
    /\ EndCall
    /\ UNCHANGED <<scVars, envVars, exit_code, input_dir, output_dir, use_tinypng, api_key,
                   images, calls, final_msg, dirs, fs>>

\* after the loop: the closing line
LoopDone ==
    /\ pc = "loop"
    /\ idx > Len(images)
    /\ final_msg' = TRUE
    /\ pc' = "done"
    /\ UNCHANGED <<scVars, envVars, exit_code, input_dir, output_dir, use_tinypng, api_key,
                   images, idx, calls, reports, callVars, imgVars, tinyVars, dirs, fs>>

Main ==
    \/ CheckArgs \/ CheckKey \/ ListImages
    \/ LoopCall \/ LoopReturn \/ LoopExcept \/ LoopDone

(***************************************************************************)
(* create_project.py.  An entry of the project directory is "absent", a    *)
(* "file", an "emptydir" or a "dir" (a directory with something in it);    *)
(* prompt_temp, in the working directory, likewise.                        *)
(***************************************************************************)
Platforms == {"ios", "flutter", "android"}
NoSubtree == [present |-> FALSE, gemini |-> "absent", docs |-> "absent", audit |-> "absent"]
IsDir(k) == k \in {"emptydir", "dir"}

\* The entries arch/<platform> holds, by name.
Items(r) == {n \in {"gemini", "docs", "audit"} : r[n] # "absent"}

\* shutil.copytree(s, d, dirs_exist_ok=True) for a directory, shutil.copy2(s, d)
\* for a file, onto an entry that is old: copy2 onto a directory copies into
\* it, copytree onto a file raises.
CopyRaises(old, new) == IsDir(new) /\ old = "file"
Copied(old, new) ==
    IF new = "file" THEN (IF IsDir(old) THEN "dir" ELSE "file")
    ELSE IF new = "dir" THEN "dir"
    ELSE IF old = "absent" THEN "emptydir" ELSE old

\* os.makedirs(p, exist_ok=True) raises FileExistsError on a file.
MakedirsRaises(old) == old = "file"
Makedirs(old) == IF old = "absent" THEN "emptydir" ELSE old

NoSteps == [project_made |-> FALSE, clone |-> "none", copy_failed |-> FALSE,
            cleanup_raised |-> FALSE, rule_failed |-> FALSE,
            docs_tried |-> FALSE, docs_raised |-> FALSE,
            audit_tried |-> FALSE, audit_raised |-> FALSE]

\* lines 112-127: the argument count and the platform, then create_project
ScaffoldMain ==
    /\ spc = "main"
    /\ IF Len(sc_argv) < 3 \/ Len(sc_argv) > 4
       THEN spc' = "exit" /\ sc_exit' = 1
       ELSE IF sc_argv[3] \notin Platforms
       THEN spc' = "exit" /\ sc_exit' = 1
       ELSE spc' = "mkdir" /\ UNCHANGED sc_exit
    /\ UNCHANGED <<toolVars, sc_argv, remote, before, tree, steps>>

\* 1. os.makedirs(project_path, exist_ok=True); an OSError ends the function
MakeProjectDir ==
    /\ spc = "mkdir"
    /\ \E made \in BOOLEAN :
          IF made \/ tree.project
          THEN /\ tree' = [tree EXCEPT !.project = TRUE]
               /\ steps' = [steps EXCEPT !.project_made = TRUE]
               /\ spc' = "clone"
          ELSE /\ spc' = "returned"
               /\ UNCHANGED <<tree, steps>>
    /\ UNCHANGED <<toolVars, sc_argv, remote, before, sc_exit>>

\* 2. git clone into prompt_temp: it fails on a directory that is not empty,
\* and may fail otherwise (CalledProcessError, leaving prompt_temp or not) or
\* not start at all (any other exception).
CloneRepo ==
    /\ spc = "clone"
    /\ \E result \in {"ok", "failed", "error"}, left \in {"absent", "emptydir", "dir"} :
          /\ result = "ok" => tree.temp # "dir"
          /\ left = (IF result = "ok" THEN "dir"
                     ELSE IF result = "error" \/ tree.temp # "absent" THEN tree.temp
                     ELSE left)
          /\ tree' = [tree EXCEPT !.temp = left]
          /\ steps' = [steps EXCEPT !.clone = result]
          /\ spc' = IF result = "ok" THEN "copy" ELSE "cleanup"
    /\ UNCHANGED <<toolVars, sc_argv, remote, before, sc_exit>>

\* if os.path.exists(source_dir): copy every item; an item that raises ends
\* the step.  os.listdir gives the items in any order, so any set of items
\* that do not raise may be the ones copied before the first failure.
CopyPlatform ==
    /\ spc = "copy"
    /\ IF remote.present
       THEN \E done \in SUBSET Items(remote) :
               /\ \A n \in done : ~CopyRaises(tree[n], remote[n])
               /\ tree' = [n \in DOMAIN tree |->
                              IF n \in done THEN Copied(tree[n], remote[n]) ELSE tree[n]]
               /\ steps' = [steps EXCEPT !.copy_failed = (done # Items(remote))]
       ELSE UNCHANGED <<tree, steps>>
    /\ spc' = "cleanup"
    /\ UNCHANGED <<toolVars, sc_argv, remote, before, sc_exit>>

\* The removal after the copy only, not in a finally clause.
CleanupTempOnSuccess ==
    /\ spc = "cleanup"
    /\ tree' = IF steps.clone = "ok" /\ ~steps.copy_failed
               THEN [tree EXCEPT !.temp = "absent"] ELSE tree
    /\ spc' = "rules"
    /\ UNCHANGED <<toolVars, sc_argv, remote, before, sc_exit, steps>>

\* finally: if os.path.exists(temp_clone_dir): shutil.rmtree(temp_clone_dir),
\* whose exception nothing catches
CleanupTemp ==
    /\ spc = "cleanup"
    /\ \E removed \in BOOLEAN :
          IF tree.temp # "absent" /\ ~removed
          THEN /\ steps' = [steps EXCEPT !.cleanup_raised = TRUE]
               /\ spc' = "raised"
               /\ UNCHANGED tree
          ELSE /\ tree' = [tree EXCEPT !.temp = "absent"]
               /\ spc' = "rules"
               /\ UNCHANGED steps
    /\ UNCHANGED <<toolVars, sc_argv, remote, before, sc_exit>>

\* .cursor/rules and <platform>4dev.mdc from GEMINI.md; any exception is caught
CreateRuleFile ==
    /\ spc = "rules"
    /\ \E made \in BOOLEAN, written \in BOOLEAN :
          IF ~made /\ ~tree.rules
          THEN /\ steps' = [steps EXCEPT !.rule_failed = TRUE]
               /\ UNCHANGED tree
          ELSE IF tree.gemini = "file"
          THEN /\ tree' = [tree EXCEPT !.rules = TRUE, !.mdc = @ \/ written]
               /\ steps' = [steps EXCEPT !.rule_failed = ~written]
          ELSE /\ tree' = [tree EXCEPT !.rules = TRUE]
               /\ UNCHANGED steps
    /\ spc' = "docs"
    /\ UNCHANGED <<toolVars, sc_argv, remote, before, sc_exit>>

\* The docs directory made only when the clone did not fail.
MakeDocsDirAfterClone ==
    /\ spc = "docs"
    /\ IF steps.clone = "ok"
       THEN /\ tree' = [tree EXCEPT !.docs = Makedirs(@)]
            /\ steps' = [steps EXCEPT !.docs_tried = TRUE]
       ELSE UNCHANGED <<tree, steps>>
    /\ spc' = "audit"
    /\ UNCHANGED <<toolVars, sc_argv, remote, before, sc_exit>>

\* 3. os.makedirs(docs_dir, exist_ok=True); an OSError is caught
MakeDocsDir ==
    /\ spc = "docs"
    /\ \E made \in BOOLEAN :
          IF MakedirsRaises(tree.docs) \/ (~made /\ tree.docs = "absent")
          THEN /\ steps' = [steps EXCEPT !.docs_tried = TRUE, !.docs_raised = TRUE]
               /\ UNCHANGED tree
          ELSE /\ tree' = [tree EXCEPT !.docs = Makedirs(@)]
               /\ steps' = [steps EXCEPT !.docs_tried = TRUE]
    /\ spc' = "audit"
    /\ UNCHANGED <<toolVars, sc_argv, remote, before, sc_exit>>

\* 4. os.makedirs(audit_dir, exist_ok=True); an OSError is caught
MakeAuditDir ==
    /\ spc = "audit"
    /\ \E made \in BOOLEAN :
          IF MakedirsRaises(tree.audit) \/ (~made /\ tree.audit = "absent")
          THEN /\ steps' = [steps EXCEPT !.audit_tried = TRUE, !.audit_raised = TRUE]
               /\ UNCHANGED tree
          ELSE /\ tree' = [tree EXCEPT !.audit = Makedirs(@)]
               /\ steps' = [steps EXCEPT !.audit_tried = TRUE]
    /\ spc' = "returned"
    /\ UNCHANGED <<toolVars, sc_argv, remote, before, sc_exit>>

CreateProject ==
    \/ ScaffoldMain \/ MakeProjectDir \/ CloneRepo \/ CopyPlatform \/ CleanupTemp
    \/ CreateRuleFile \/ MakeDocsDir \/ MakeAuditDir

(***************************************************************************)
(* Inputs.                                                                 *)
(***************************************************************************)
MaxDim == 40
MaxFiles == 2

\* Image sizes: every small size, and the sizes of the target and of a screen.
Dims == (1..MaxDim) \cup {207, 448, 1080, 1920, TARGET_W, TARGET_H}

Names == { <<"a", ".png">>, <<"a", ".png", "_temp", ".png">>, <<"B", ".JPG">>,
           <<"notes", ".txt">> }

Injective(f) == \A i, j \in DOMAIN f : f[i] = f[j] => i = j
Listings == UNION { {f \in [1..n -> Names] : Injective(f)} : n \in 0..MaxFiles }

Argvs ==
    LET first == {"-h", "--help", "in", "missing", "--tinypng"}
        second == {"out", "--tinypng"}
        third == {"--tinypng", "extra"}
    IN  {<<"prog">>} \cup {<<"prog", a>> : a \in first}
        \cup {<<"prog", a, b>> : a \in first, b \in second}
        \cup {<<"prog", a, b, c>> : a \in first, b \in second, c \in third}

Keys == {None, "", "k3y"}

InitCall ==
    /\ in_path = <<>>
    /\ out_path = <<>>
    /\ img = NoImage
    /\ new_width = 0
    /\ new_height = 0
    /\ box = NoBox
    /\ temp_path = <<>>
    /\ success = FALSE
    /\ tiny_msg = ""

NoTree == [project |-> FALSE, gemini |-> "absent", docs |-> "absent", audit |-> "absent",
           rules |-> FALSE, mdc |-> FALSE, temp |-> "absent"]

\* create_project.py is not running.
ScaffoldIdle ==
    /\ sc_argv = <<>>
    /\ remote = NoSubtree
    /\ before = NoTree
    /\ tree = NoTree
    /\ spc = "idle"
    /\ sc_exit = NotExited
    /\ steps = NoSteps

\* A run of the tool on a directory of up to MaxFiles entries.
Init ==
    /\ ScaffoldIdle
    /\ argv \in Argvs
    /\ environ \in Keys
    /\ listing \in Listings
    /\ input_files \in [{Join("in", listing[i]) : i \in 1..Len(listing)}
                           -> {Corrupt, ImageFile(3, 5)}]
    /\ dirs = {"in"}
    /\ fs = NoFiles
    /\ pc = "start"
    /\ exit_code = NotExited
    /\ input_dir = ""
    /\ output_dir = ""
    /\ use_tinypng = FALSE
    /\ api_key = None
    /\ images = <<>>
    /\ idx = 0
    /\ calls = <<>>
    /\ reports = <<>>
    /\ final_msg = FALSE
    /\ InitCall

Next == Main \/ ProcessImage

Spec == Init /\ [][Next]_vars

\* One call process_image(in/a.png, out/a.png, use_tinypng, api_key) on an
\* image of any size of Dims.
InitImage ==
    /\ ScaffoldIdle
    /\ argv = <<"prog">>
    /\ environ = None
    /\ listing = << <<"a", ".png">> >>
    /\ \E w \in Dims, h \in Dims :
          input_files = [q \in {Join("in", <<"a", ".png">>)} |-> ImageFile(w, h)]
    /\ dirs = {"in", "out"}
    /\ fs = NoFiles
    /\ pc = "open"
    /\ exit_code = NotExited
    /\ input_dir = "in"
    /\ output_dir = "out"
    /\ use_tinypng \in BOOLEAN
    /\ api_key \in Keys
    /\ images = listing
    /\ idx = 1
    /\ calls = listing
    /\ reports = <<>>
    /\ final_msg = FALSE
    /\ in_path = Join("in", <<"a", ".png">>)
    /\ out_path = Join("out", <<"a", ".png">>)
    /\ img = NoImage
    /\ new_width = 0
    /\ new_height = 0
    /\ box = NoBox
    /\ temp_path = <<>>
    /\ success = FALSE
    /\ tiny_msg = ""

SpecImage == InitImage /\ [][ProcessImage]_vars

\* resize_and_crop.py is not running.
ToolIdle ==
    /\ argv = <<>>
    /\ environ = None
    /\ listing = <<>>
    /\ input_files = [q \in {} |-> Corrupt]
    /\ dirs = {}
    /\ fs = NoFiles
    /\ pc = "idle"
    /\ exit_code = NotExited
    /\ input_dir = ""
    /\ output_dir = ""
    /\ use_tinypng = FALSE
    /\ api_key = None
    /\ images = <<>>
    /\ idx = 0
    /\ calls = <<>>
    /\ reports = <<>>
    /\ final_msg = FALSE
    /\ InitCall

ScArgvs ==
    {<<"prog">>, <<"prog", "app">>, <<"prog", "app", "ios", "dest", "extra">>}
    \cup {<<"prog", "app", p>> : p \in Platforms \cup {"web"}}
    \cup {<<"prog", "app", p, "dest">> : p \in Platforms \cup {"web"}}

Remotes ==
    {NoSubtree} \cup
    [present : {TRUE}, gemini : {"absent", "file"},
     docs : {"absent", "file", "emptydir", "dir"}, audit : {"absent", "dir"}]

\* The project directory of an earlier run, or none; a prompt_temp left behind.
Trees ==
    [project : {FALSE}, gemini : {"absent"}, docs : {"absent"}, audit : {"absent"},
     rules : {FALSE}, mdc : {FALSE}, temp : {"absent", "emptydir", "dir"}]
    \cup
    [project : {TRUE}, gemini : {"absent", "file"}, docs : {"absent", "file", "emptydir", "dir"},
     audit : {"absent", "emptydir"}, rules : {FALSE}, mdc : {FALSE},
     temp : {"absent", "emptydir", "dir"}]

InitScaffold ==
    /\ ToolIdle
    /\ sc_argv \in ScArgvs
    /\ remote \in Remotes
    /\ before \in Trees
    /\ tree = before
    /\ spc = "main"
    /\ sc_exit = NotExited
    /\ steps = NoSteps

SpecScaffold == InitScaffold /\ [][CreateProject]_vars

(***************************************************************************)
(* Properties of process_image (checked under SpecImage).                  *)
(***************************************************************************)
InW == input_files[in_path].width
InH == input_files[in_path].height
Scaled == new_width # 0
Cropped == box # NoBox

\* C1: for every image size the scaled size covers the target (new_width >=
\* 1242 and new_height >= 2688), so the crop box lies inside the scaled image,
\* and what the direct save and the fallback save leave at the output path is
\* the cropped image, exactly 1242 x 2688.
C1_CoverFit ==
    /\ Scaled => new_width >= TARGET_W /\ new_height >= TARGET_H
    /\ Cropped => /\ 0 <= box.left /\ box.right <= new_width
                  /\ 0 <= box.top /\ box.bottom <= new_height
    /\ (pc = "returned" /\ ~success) =>
          /\ Exists(out_path)
          /\ fs[out_path] = Encoded(img)
          /\ fs[out_path].width = TARGET_W /\ fs[out_path].height = TARGET_H
          /\ fs[out_path].inside

\* A 1 x N image saved by the fallback after a failed compression.
C1_Witness ==
    /\ pc = "returned" /\ use_tinypng /\ ~success
    /\ InW = 1 /\ InH > 30
    /\ Exists(out_path) /\ fs[out_path].width = TARGET_W /\ fs[out_path].height = TARGET_H

\* The integer nearest to n / d, ties to even (Python's round).
RoundDiv(n, d) ==
    LET q == n \div d
        r == n % d
    IN  IF 2 * r > d \/ (2 * r = d /\ q % 2 = 1) THEN q + 1 ELSE q

\* C5 as stated: the scaled width (height) is the ratio times the target
\* height (width) rounded to the nearest integer.
C5_RoundsToNearest ==
    Scaled =>
        IF InW * TARGET_H > TARGET_W * InH
        THEN new_height = TARGET_H /\ new_width = RoundDiv(InW * TARGET_H, InH)
        ELSE new_width = TARGET_W /\ new_height = RoundDiv(TARGET_W * InH, InW)

\* The float result truncated: floor(n / d), or one less where n / d is an
\* integer that the float arithmetic falls just short of.
Truncated(x, n, d) == x = n \div d \/ (x = n \div d - 1 /\ n % d = 0)

\* C5, amended: the scale step truncates (int()), it does not round. If
\* w/h > 1242/2688 the scaled height is 2688 and the scaled width is
\* int((w/h) * 2688) in double arithmetic, which is floor(w * 2688 / h), or one
\* less when h divides w * 2688; otherwise the scaled width is 1242 and the
\* scaled height is int(1242 / (w/h)), which is floor(1242 * h / w), or one less
\* when w divides 1242 * h.
C5_Truncates ==
    Scaled =>
        IF InW * TARGET_H > TARGET_W * InH
        THEN new_height = TARGET_H /\ Truncated(new_width, InW * TARGET_H, InH)
        ELSE new_width = TARGET_W /\ Truncated(new_height, TARGET_W * InH, InW)

\* 3 x 5: (3/5) * 2688 = 1612.8 is scaled to 1612; 17 x 7 would be 6528 exactly
\* and is scaled to 6527.
C5_Witness ==
    \/ Scaled /\ InW = 3 /\ InH = 5 /\ new_width = 1612 /\ pc = "crop"
    \/ Scaled /\ InW = 17 /\ InH = 7 /\ new_width = 6527 /\ pc = "raised"

\* C6: left = (new_width - 1242) // 2, top = (new_height - 2688) // 2, right =
\* left + 1242, bottom = top + 2688; the margin cut on the right (bottom) is the
\* left (top) margin, or one more exactly when the excess is odd.
C6_CentredCrop ==
    Cropped =>
        /\ box.left = (new_width - TARGET_W) \div 2
        /\ box.top = (new_height - TARGET_H) \div 2
        /\ box.right = box.left + TARGET_W
        /\ box.bottom = box.top + TARGET_H
        /\ (new_width - box.right) - box.left \in {0, 1}
        /\ (new_height - box.bottom) - box.top \in {0, 1}
        /\ ((new_width - box.right) - box.left = 1) <=> ((new_width - TARGET_W) % 2 = 1)
        /\ ((new_height - box.bottom) - box.top = 1) <=> ((new_height - TARGET_H) % 2 = 1)

\* A crop with an odd excess: the right margin is one more than the left.
C6_Witness ==
    /\ Cropped
    /\ (new_width - TARGET_W) % 2 = 1
    /\ new_width - box.right = box.left + 1

(***************************************************************************)
(* Properties of main and of the files it leaves (checked under Spec).     *)
(***************************************************************************)
IsPrefix(a, b) == Len(a) <= Len(b) /\ a = SubSeq(b, 1, Len(a))
InLoop == pc \in {"loop", "open", "scale", "crop", "save", "compress", "cleanup",
                  "fallback", "returned", "raised"}

\* C2: every name of images is passed to process_image once, in order; an
\* exception of one file is reported for it and stops nothing: no exception
\* leaves the loop, the loop can always go on (the scale step, which is always
\* possible, aside), and at the closing line every file has been passed and
\* has its report.
C2_EveryFileProcessed ==
    /\ IsPrefix(calls, images)
    /\ Len(reports) <= Len(calls) /\ Len(calls) <= Len(reports) + 1
    /\ \A i \in 1..Len(reports) : reports[i].fname = images[i]
    /\ pc = "uncaught" => calls = <<>>
    /\ (InLoop /\ pc # "scale") => ENABLED (Main \/ FileSteps)
    /\ pc = "done" => final_msg /\ calls = images /\ Len(reports) = Len(images)

\* A batch whose first file failed and whose second file was processed.
C2_Witness ==
    /\ pc = "done"
    /\ Len(reports) = 2
    /\ ~reports[1].ok /\ reports[2].ok

\* C3: with compression on, when the attempt fails in any way and
\* process_image returns, the output path holds the cropped image as the
\* plain save writes it.
C3_FallbackOutput ==
    (pc = "returned" /\ use_tinypng /\ Truthy(api_key) /\ ~success) =>
        /\ Exists(out_path)
        /\ fs[out_path] = Encoded(img)

\* The fallback after a 429 reply.
C3_Witness ==
    /\ pc = "returned" /\ use_tinypng /\ Truthy(api_key) /\ ~success
    /\ tiny_msg = "api error: rate limit"
    /\ Exists(out_path) /\ fs[out_path] = Encoded(img)

\* C4: with compression on, once process_image has finished for a file, by
\* return or by exception, its temporary file is not in the output directory.
C4_TempDeleted ==
    (pc \in {"returned", "raised"} /\ use_tinypng /\ Truthy(api_key)) =>
        ~Exists(TempPath(out_path))

HelpOrNoArgs == Len(argv) < 2 \/ argv[2] \in {"-h", "--help"}
OneArg == ~HelpOrNoArgs /\ Len(argv) = 2
MissingKey ==
    /\ ~HelpOrNoArgs /\ Len(argv) >= 3
    /\ \E i \in 1..Len(argv) : argv[i] = "--tinypng"
    /\ environ \in {None, ""}
NoInputDir == ~HelpOrNoArgs /\ Len(argv) >= 3 /\ argv[2] # "in"
NoImages ==
    /\ ~HelpOrNoArgs /\ Len(argv) >= 3 /\ ~MissingKey /\ ~NoInputDir
    /\ \A i \in 1..Len(listing) : ~IsImageName(listing[i])

\* C7: main exits 0 with no arguments or a help flag; 1 with one argument,
\* with --tinypng and no key, or with no input directory; 0 when the input
\* directory has no image. In each case process_image is never called and no
\* output file is written.
C7_StartUp ==
    /\ (HelpOrNoArgs \/ OneArg \/ MissingKey \/ NoInputDir \/ NoImages) =>
          /\ ~InLoop /\ pc # "done"
          /\ calls = <<>>
          /\ fs = NoFiles
    /\ (pc = "exit" /\ HelpOrNoArgs) => exit_code = 0
    /\ (pc = "exit" /\ (OneArg \/ MissingKey \/ NoInputDir)) => exit_code = 1
    /\ (pc = "exit" /\ NoImages) => exit_code = 0
    /\ pc = "exit" => (HelpOrNoArgs \/ OneArg \/ MissingKey \/ NoInputDir \/ NoImages)

\* --tinypng with an empty key and an image waiting in the input directory.
C7_Witness ==
    /\ pc = "exit" /\ exit_code = 1
    /\ MissingKey /\ environ = "" /\ ~NoInputDir
    /\ \E i \in 1..Len(listing) : IsImageName(listing[i])

\* C10: processing one file never overwrites or deletes the output of another
\* file of the batch: at the end of the batch every file reported done has its
\* output in the output directory, with the content written for it.
C10_OutputsKept ==
    pc = "done" =>
        \A i \in 1..Len(reports) :
           reports[i].ok =>
              /\ Exists(Join(output_dir, reports[i].fname))
              /\ fs[Join(output_dir, reports[i].fname)].src = Join(input_dir, reports[i].fname)
              /\ fs[Join(output_dir, reports[i].fname)].enc \in {"pil", "tinypng"}

Provided(n) == before[n] # "absent" \/ (steps.clone = "ok" /\ remote[n] # "absent")

C9_TempCloneRemoved ==
    spc \in {"rules", "docs", "audit"} => tree.temp = "absent"

\* The clone succeeded, the copy raised, and prompt_temp is gone.
C9_Witness ==
    /\ spc = "rules"
    /\ steps.clone = "ok" /\ steps.copy_failed
    /\ tree.temp = "absent"

====
